---- MODULE Spec2Model ----
(***************************************************************************)
(* Fixed-point numbers (numbers/v1/num.py) and the bitmask helper          *)
(* (numbers/utils.py, numbers/util.py).                                    *)
(*                                                                         *)
(* Num objects live in a heap (a sequence of records); an object is its    *)
(* index, so "the same object" is "the same index".  A call either returns *)
(* a tuple of values or raises an exception [cls, msg].                    *)
(***************************************************************************)
EXTENDS Integers, Sequences, FiniteSets, TLC

VARIABLES heap, self, pc, op, args, outcome, exc, retv, depth

vars == <<heap, self, pc, op, args, outcome, exc, retv, depth>>

(* ------------------------------ bounds --------------------------------- *)
MaxExp == 3
MaxC == 9
MaxArg == 6
MaxPrec == 6
MaxK == 5
RecursionLimit == 3

ExpInputs == (0 - MaxExp) .. MaxExp
CInputs == (0 - 1) .. MaxC
PosInputs == (0 - MaxArg) .. MaxArg
PrecInputs == (0 - 1) .. MaxPrec
KInputs == (0 - 2) .. MaxK

(* ------------------------- results of a call --------------------------- *)
NoExc == [cls |-> "", msg |-> ""]

Return(v) == [raised |-> FALSE, exc |-> NoExc, val |-> v]

Raise(cls, msg) == [raised |-> TRUE, exc |-> [cls |-> cls, msg |-> msg], val |-> <<>>]

ReturnH(h, v) == [raised |-> FALSE, exc |-> NoExc, val |-> v, heap |-> h]

RaiseH(h, cls, msg) == [raised |-> TRUE, exc |-> [cls |-> cls, msg |-> msg], val |-> <<>>, heap |-> h]

(* isinstance(x, int) and isinstance(x, bool) *)
IsInt(x) == x \in Int

IsBool(x) == x \in BOOLEAN

(* ----------------------- Python integer operators ---------------------- *)
RECURSIVE Double(_, _)
Double(a, k) == IF k = 0 THEN a ELSE Double(a + a, k - 1)

RECURSIVE Halve(_, _)
Halve(a, k) == IF k = 0 THEN a ELSE Halve(a \div 2, k - 1)

(* a << k : ValueError on a negative shift count *)
shl(a, k) == IF k < 0 THEN Raise("ValueError", "negative shift count") ELSE Return(<<Double(a, k)>>)

(* a >> k *)
shr(a, k) == IF k < 0 THEN Raise("ValueError", "negative shift count") ELSE Return(<<Halve(a, k)>>)

(* a & b on non-negative integers *)
RECURSIVE BitAnd(_, _)
BitAnd(a, b) == IF a = 0 \/ b = 0 THEN 0 ELSE ((a % 2) * (b % 2)) + 2 * BitAnd(a \div 2, b \div 2)

(* int.bit_length() *)
RECURSIVE bit_length(_)
bit_length(c) == IF c = 0 THEN 0 ELSE 1 + bit_length(c \div 2)

(* ------------------------------ bitmask -------------------------------- *)
bitmask_off_by_one(k) ==
    IF ~IsInt(k) \/ k < 0 THEN Raise("ValueError", "must be a non-negative integer")
    ELSE LET t == shl(1, k) IN IF t.raised THEN t ELSE Return(<<t.val[1]>>)

(* numbers/utils.py, the one num.py imports *)
bitmask(k) ==
    IF ~IsInt(k) \/ k < 0 THEN Raise("ValueError", "must be a non-negative integer")
    ELSE LET t == shl(1, k) IN IF t.raised THEN t ELSE Return(<<t.val[1] - 1>>)

(* numbers/util.py, no argument check of its own *)
util_bitmask(k) == LET t == shl(1, k) IN IF t.raised THEN t ELSE Return(<<t.val[1] - 1>>)

(* -------------------------------- Num ---------------------------------- *)
(* Num.__init__ : allocates a new object *)
Num_init(h, s, exp, c) ==
    IF ~IsBool(s) THEN RaiseH(h, "ValueError", "expected a boolean")
    ELSE IF ~IsInt(exp) THEN RaiseH(h, "ValueError", "expected an integer")
    ELSE IF ~IsInt(c) \/ c < 0 THEN RaiseH(h, "ValueError", "expected a non-negative integer")
    ELSE ReturnH(Append(h, [s |-> s, c |-> c, exp |-> exp]), <<Len(h) + 1>>)

Num_p(h, x) == bit_length(h[x].c)

(* Optional[int]: <<>> is None *)
Num_e(h, x) == IF h[x].c = 0 THEN <<>> ELSE <<h[x].exp + Num_p(h, x) - 1>>

Num_n(h, x) == h[x].exp - 1

is_zero(h, x) == h[x].c = 0

is_integer_short_mask(h, x) ==
    IF is_zero(h, x) THEN Return(<<TRUE>>)
    ELSE IF Num_e(h, x) = <<>> THEN Raise("AssertionError", "")
    ELSE IF h[x].exp >= 0 THEN Return(<<TRUE>>)
    ELSE IF Num_e(h, x)[1] < 0 THEN Return(<<FALSE>>)
    ELSE LET mask == bitmask((0 - h[x].exp) - 1) IN
         IF mask.raised THEN mask
         ELSE LET fbits == BitAnd(h[x].c, mask.val[1]) IN Return(<<fbits = 0>>)

is_integer(h, x) ==
    IF is_zero(h, x) THEN Return(<<TRUE>>)
    ELSE IF Num_e(h, x) = <<>> THEN Raise("AssertionError", "")
    ELSE IF h[x].exp >= 0 THEN Return(<<TRUE>>)
    ELSE IF Num_e(h, x)[1] < 0 THEN Return(<<FALSE>>)
    ELSE LET mask == bitmask(0 - h[x].exp) IN
         IF mask.raised THEN mask
         ELSE LET fbits == BitAnd(h[x].c, mask.val[1]) IN Return(<<fbits = 0>>)

bit_wrong_index(h, x, n) ==
    IF ~IsInt(n) THEN Raise("ValueError", "expected an integer")
    ELSE IF is_zero(h, x) THEN Return(<<FALSE>>)
    ELSE IF Num_e(h, x) = <<>> THEN Raise("AssertionError", "")
    ELSE IF n < h[x].exp THEN Return(<<FALSE>>)
    ELSE IF n > Num_e(h, x)[1] THEN Return(<<FALSE>>)
    ELSE LET idx == n - h[x].exp
             t == shl(1, idx + 1) IN
         IF t.raised THEN t
         ELSE LET b == BitAnd(h[x].c, t.val[1]) IN Return(<<b # 0>>)

bit(h, x, n) ==
    IF ~IsInt(n) THEN Raise("ValueError", "expected an integer")
    ELSE IF is_zero(h, x) THEN Return(<<FALSE>>)
    ELSE IF Num_e(h, x) = <<>> THEN Raise("AssertionError", "")
    ELSE IF n < h[x].exp THEN Return(<<FALSE>>)
    ELSE IF n > Num_e(h, x)[1] THEN Return(<<FALSE>>)
    ELSE LET idx == n - h[x].exp
             t == shl(1, idx) IN
         IF t.raised THEN t
         ELSE LET b == BitAnd(h[x].c, t.val[1]) IN Return(<<b # 0>>)

(* normalize with the exponent moved the wrong way *)
normalize_exp_up(h, x, p) ==
    IF ~IsInt(p) \/ p < 0 THEN RaiseH(h, "ValueError", "expected a non-negative integer")
    ELSE IF is_zero(h, x) THEN ReturnH(h, <<x>>)
    ELSE IF p < Num_p(h, x) THEN RaiseH(h, "ValueError", "insufficient precision")
    ELSE LET shift == p - Num_p(h, x)
             exp == h[x].exp + shift
             c == shl(h[x].c, shift) IN
         IF c.raised THEN RaiseH(h, c.exc.cls, c.exc.msg)
         ELSE Num_init(h, h[x].s, exp, c.val[1])

(* normalize without the precision check *)
normalize_unchecked(h, x, p) ==
    IF ~IsInt(p) \/ p < 0 THEN RaiseH(h, "ValueError", "expected a non-negative integer")
    ELSE IF is_zero(h, x) THEN ReturnH(h, <<x>>)
    ELSE LET shift == p - Num_p(h, x)
             exp == h[x].exp - shift
             c == shl(h[x].c, shift) IN
         IF c.raised THEN RaiseH(h, c.exc.cls, c.exc.msg)
         ELSE Num_init(h, h[x].s, exp, c.val[1])

(* normalize without the special case for zero *)
normalize_zero_shifted(h, x, p) ==
    IF ~IsInt(p) \/ p < 0 THEN RaiseH(h, "ValueError", "expected a non-negative integer")
    ELSE IF p < Num_p(h, x) THEN RaiseH(h, "ValueError", "insufficient precision")
    ELSE LET shift == p - Num_p(h, x)
             exp == h[x].exp - shift
             c == shl(h[x].c, shift) IN
         IF c.raised THEN RaiseH(h, c.exc.cls, c.exc.msg)
         ELSE Num_init(h, h[x].s, exp, c.val[1])

(* Num.normalize *)
normalize(h, x, p) ==
    IF ~IsInt(p) \/ p < 0 THEN RaiseH(h, "ValueError", "expected a non-negative integer")
    ELSE IF is_zero(h, x) THEN ReturnH(h, <<x>>)
    ELSE IF p < Num_p(h, x) THEN RaiseH(h, "ValueError", "insufficient precision")
    ELSE LET shift == p - Num_p(h, x)
             exp == h[x].exp - shift
             c == shl(h[x].c, shift) IN
         IF c.raised THEN RaiseH(h, c.exc.cls, c.exc.msg)
         ELSE Num_init(h, h[x].s, exp, c.val[1])

(* hi = Num(s, exp_hi, c_hi); lo = Num(s, exp_lo, c_lo); return (hi, lo) *)
MakePair(h, s, exp_hi, c_hi, exp_lo, c_lo) ==
    LET hi == Num_init(h, s, exp_hi, c_hi) IN
    IF hi.raised THEN hi
    ELSE LET lo == Num_init(hi.heap, s, exp_lo, c_lo) IN
         IF lo.raised THEN lo
         ELSE ReturnH(lo.heap, <<hi.val[1], lo.val[1]>>)

(* split that keeps one digit too few in the low part *)
split_short_lo(h, x, n) ==
    IF ~IsInt(n) THEN RaiseH(h, "ValueError", "expected an integer")
    ELSE IF is_zero(h, x) THEN MakePair(h, h[x].s, n + 1, 0, n, 0)
    ELSE IF Num_e(h, x) = <<>> THEN RaiseH(h, "AssertionError", "")
    ELSE IF n > Num_e(h, x)[1] THEN MakePair(h, h[x].s, n + 1, 0, h[x].exp, h[x].c)
    ELSE IF n < h[x].exp THEN MakePair(h, h[x].s, h[x].exp, h[x].c, n, 0)
    ELSE LET p_lo == (n + 1) - h[x].exp
             mask_lo == bitmask(p_lo - 1)
             exp_hi == h[x].exp + p_lo
             c_hi == shr(h[x].c, p_lo)
             exp_lo == h[x].exp IN
         IF mask_lo.raised THEN RaiseH(h, mask_lo.exc.cls, mask_lo.exc.msg)
         ELSE IF c_hi.raised THEN RaiseH(h, c_hi.exc.cls, c_hi.exc.msg)
         ELSE LET c_lo == BitAnd(h[x].c, mask_lo.val[1]) IN
              MakePair(h, h[x].s, exp_hi, c_hi.val[1], exp_lo, c_lo)

(* split whose zero parts all sit at n + 1 *)
split_lo_exp(h, x, n) ==
    IF ~IsInt(n) THEN RaiseH(h, "ValueError", "expected an integer")
    ELSE IF is_zero(h, x) THEN MakePair(h, h[x].s, n + 1, 0, n, 0)
    ELSE IF Num_e(h, x) = <<>> THEN RaiseH(h, "AssertionError", "")
    ELSE IF n > Num_e(h, x)[1] THEN MakePair(h, h[x].s, n + 1, 0, h[x].exp, h[x].c)
    ELSE IF n < h[x].exp THEN MakePair(h, h[x].s, h[x].exp, h[x].c, n + 1, 0)
    ELSE LET p_lo == (n + 1) - h[x].exp
             mask_lo == bitmask(p_lo)
             exp_hi == h[x].exp + p_lo
             c_hi == shr(h[x].c, p_lo)
             exp_lo == h[x].exp IN
         IF mask_lo.raised THEN RaiseH(h, mask_lo.exc.cls, mask_lo.exc.msg)
         ELSE IF c_hi.raised THEN RaiseH(h, c_hi.exc.cls, c_hi.exc.msg)
         ELSE LET c_lo == BitAnd(h[x].c, mask_lo.val[1]) IN
              MakePair(h, h[x].s, exp_hi, c_hi.val[1], exp_lo, c_lo)

(* Num.split *)
split(h, x, n) ==
    IF ~IsInt(n) THEN RaiseH(h, "ValueError", "expected an integer")
    ELSE IF is_zero(h, x) THEN MakePair(h, h[x].s, n + 1, 0, n, 0)
    ELSE IF Num_e(h, x) = <<>> THEN RaiseH(h, "AssertionError", "")
    ELSE IF n > Num_e(h, x)[1] THEN MakePair(h, h[x].s, n + 1, 0, h[x].exp, h[x].c)
    ELSE IF n < h[x].exp THEN MakePair(h, h[x].s, h[x].exp, h[x].c, n, 0)
    ELSE LET p_lo == (n + 1) - h[x].exp
             mask_lo == bitmask(p_lo)
             exp_hi == h[x].exp + p_lo
             c_hi == shr(h[x].c, p_lo)
             exp_lo == h[x].exp IN
         IF mask_lo.raised THEN RaiseH(h, mask_lo.exc.cls, mask_lo.exc.msg)
         ELSE IF c_hi.raised THEN RaiseH(h, c_hi.exc.cls, c_hi.exc.msg)
         ELSE LET c_lo == BitAnd(h[x].c, mask_lo.val[1]) IN
              MakePair(h, h[x].s, exp_hi, c_hi.val[1], exp_lo, c_lo)

(* ------------------------------ the calls ------------------------------ *)
Init ==
    /\ heap = <<>>
    /\ self = 0
    /\ pc = "start"
    /\ op = "none"
    /\ args = <<>>
    /\ outcome = "none"
    /\ exc = NoExc
    /\ retv = <<>>
    /\ depth = 0

(* the caller sees a call end: a returned value or a raised exception *)
Finish(name, a, r) ==
    /\ pc' = "done"
    /\ op' = name
    /\ args' = a
    /\ outcome' = IF r.raised THEN "raise" ELSE "return"
    /\ exc' = r.exc
    /\ retv' = r.val

(* x = Num(s, exp, c) *)
Construct ==
    /\ pc = "start"
    /\ \E s \in BOOLEAN, exp \in ExpInputs, c \in CInputs :
         LET r == Num_init(heap, s, exp, c) IN
         /\ heap' = r.heap
         /\ args' = <<s, exp, c>>
         /\ op' = "Num"
         /\ IF r.raised
              THEN /\ pc' = "done"
                   /\ self' = self
                   /\ outcome' = "raise"
              ELSE /\ pc' = "ready"
                   /\ self' = r.val[1]
                   /\ outcome' = "none"
         /\ exc' = r.exc
         /\ retv' = <<>>
    /\ UNCHANGED depth

CallIsInteger ==
    /\ pc = "ready"
    /\ Finish("is_integer", <<>>, is_integer(heap, self))
    /\ UNCHANGED <<heap, self, depth>>

CallBit ==
    /\ pc = "ready"
    /\ \E n \in PosInputs : Finish("bit", <<n>>, bit(heap, self, n))
    /\ UNCHANGED <<heap, self, depth>>

CallNormalize ==
    /\ pc = "ready"
    /\ \E p \in PrecInputs :
         LET r == normalize(heap, self, p) IN
         /\ Finish("normalize", <<p>>, r)
         /\ heap' = r.heap
    /\ UNCHANGED <<self, depth>>

CallSplit ==
    /\ pc = "ready"
    /\ \E n \in PosInputs :
         LET r == split(heap, self, n) IN
         /\ Finish("split", <<n>>, r)
         /\ heap' = r.heap
    /\ UNCHANGED <<self, depth>>

(* x.m : the getter is entered *)
CallM ==
    /\ pc = "ready"
    /\ pc' = "in_m"
    /\ op' = "m"
    /\ args' = <<>>
    /\ depth' = 1
    /\ UNCHANGED <<heap, self, outcome, exc, retv>>

(* both branches of the getter read self.m again before they can return *)
MRecurse ==
    /\ pc = "in_m"
    /\ depth < RecursionLimit
    /\ depth' = depth + 1
    /\ UNCHANGED <<heap, self, pc, op, args, outcome, exc, retv>>

(* the interpreter's frame limit ends the descent *)
MOverflow ==
    /\ pc = "in_m"
    /\ depth = RecursionLimit
    /\ Finish("m", <<>>, Raise("RecursionError", "maximum recursion depth exceeded"))
    /\ depth' = 0
    /\ UNCHANGED <<heap, self>>

CallBitmask ==
    /\ pc = "start"
    /\ \E k \in KInputs : Finish("bitmask", <<k>>, bitmask(k))
    /\ UNCHANGED <<heap, self, depth>>

CallUtilBitmask ==
    /\ pc = "start"
    /\ \E k \in KInputs : Finish("util_bitmask", <<k>>, util_bitmask(k))
    /\ UNCHANGED <<heap, self, depth>>

Next ==
    \/ Construct
    \/ CallIsInteger
    \/ CallBit
    \/ CallNormalize
    \/ CallSplit
    \/ CallM
    \/ MRecurse
    \/ MOverflow
    \/ CallBitmask
    \/ CallUtilBitmask

Spec == Init /\ [][Next]_vars

(* ----------------------------- properties ------------------------------ *)
(* the receiver of the finished call, its argument, and the returned objects *)
X == heap[self]

Arg == args[1]

Hi == heap[retv[1]]

Lo == heap[retv[2]]

Done(name) == pc = "done" /\ op = name

(* number of binary digits of c, stated without recursion *)
BitLen(c) == CHOOSE k \in 0 .. (c + 1) : c < 2 ^ k /\ (k = 0 \/ 2 ^ (k - 1) <= c)

(* position of the most significant digit of a nonzero value *)
MsbPos(x) == x.exp + BitLen(x.c) - 1

RECURSIVE BitOr(_, _)
BitOr(a, b) ==
    IF a = 0 THEN b
    ELSE IF b = 0 THEN a
    ELSE (IF (a % 2) + (b % 2) > 0 THEN 1 ELSE 0) + 2 * BitOr(a \div 2, b \div 2)

NumRec(s, exp, c) == [s |-> s, exp |-> exp, c |-> c]

(* the exception normalize raises for an invalid argument *)
InvalidArgument == normalize(heap, self, 0 - 1).exc

(* C1: split(n) returns the pair of the four-case table: zero; n >= e;     *)
(* n < exp; and the general case with p_lo = (n + 1) - exp.                *)
Thm_C1_SplitTable ==
    Done("split") =>
        LET n == Arg
            p_lo == (n + 1) - X.exp
            hi == IF X.c = 0 THEN NumRec(X.s, n + 1, 0)
                  ELSE IF n >= MsbPos(X) THEN NumRec(X.s, n + 1, 0)
                  ELSE IF n < X.exp THEN NumRec(X.s, X.exp, X.c)
                  ELSE NumRec(X.s, X.exp + p_lo, X.c \div (2 ^ p_lo))
            lo == IF X.c = 0 THEN NumRec(X.s, n, 0)
                  ELSE IF n >= MsbPos(X) THEN NumRec(X.s, X.exp, X.c)
                  ELSE IF n < X.exp THEN NumRec(X.s, n, 0)
                  ELSE NumRec(X.s, X.exp, X.c % (2 ^ p_lo))
        IN  /\ outcome = "return"
            /\ Len(retv) = 2
            /\ Hi = hi
            /\ Lo = lo

(* the boundary n = e of a nonzero value has been split *)
Wit_C1_SplitAtMsb ==
    /\ Done("split")
    /\ outcome = "return"
    /\ X.c # 0
    /\ Arg = MsbPos(X)

(* C2: reading x.m yields the signed significand: c when s is false, -c    *)
(* when s is true.                                                         *)
Claim_C2_SignedSignificand ==
    Done("m") =>
        /\ outcome = "return"
        /\ retv = <<IF X.s THEN 0 - X.c ELSE X.c>>

(* C3: normalize(p_target) with p_target >= p on a nonzero value returns   *)
(* a Num of the same sign and the same quantity whose precision is         *)
(* exactly p_target.                                                       *)
Thm_C3_NormalizeWidens ==
    (Done("normalize") /\ X.c # 0 /\ Arg >= BitLen(X.c)) =>
        /\ outcome = "return"
        /\ Len(retv) = 1
        /\ Hi.s = X.s
        /\ IF Hi.exp <= X.exp
             THEN Hi.c = X.c * (2 ^ (X.exp - Hi.exp))
             ELSE Hi.c * (2 ^ (Hi.exp - X.exp)) = X.c
        /\ BitLen(Hi.c) = Arg

(* a nonzero value has been widened by at least one digit *)
Wit_C3_Widened ==
    /\ Done("normalize")
    /\ outcome = "return"
    /\ X.c # 0
    /\ Arg > BitLen(X.c)
    /\ Hi.c > X.c

(* C4: for a nonzero value and exp <= n <= e, split(n) = (hi, lo) has      *)
(* (hi.c << p_lo) | lo.c = c with p_lo = (n + 1) - exp, and both parts     *)
(* carry the sign of the input.                                            *)
Thm_C4_SplitReconstruction ==
    (Done("split") /\ X.c # 0 /\ X.exp <= Arg /\ Arg <= MsbPos(X)) =>
        /\ outcome = "return"
        /\ Len(retv) = 2
        /\ BitOr(Hi.c * (2 ^ ((Arg + 1) - X.exp)), Lo.c) = X.c
        /\ Hi.s = X.s
        /\ Lo.s = X.s

(* a value has been split into two nonzero parts *)
Wit_C4_BothPartsNonzero ==
    /\ Done("split")
    /\ outcome = "return"
    /\ X.c # 0
    /\ X.exp <= Arg
    /\ Arg < MsbPos(X)
    /\ Hi.c # 0
    /\ Lo.c # 0

(* C5: is_integer() is true iff c = 0, or exp >= 0, or exp < 0 and         *)
(* c mod 2^(-exp) = 0.                                                     *)
Thm_C5_IsInteger ==
    Done("is_integer") =>
        /\ outcome = "return"
        /\ retv = << \/ X.c = 0
                     \/ X.exp >= 0
                     \/ (X.exp < 0 /\ X.c % (2 ^ (0 - X.exp)) = 0) >>

(* a value with fractional digit positions, all of them zero, was tested *)
Wit_C5_StraddlingInteger ==
    /\ Done("is_integer")
    /\ X.c # 0
    /\ X.exp < 0
    /\ outcome = "return"
    /\ retv = <<TRUE>>

(* C6: bit(n) is true exactly when c # 0, exp <= n <= e and digit          *)
(* (n - exp) of c is 1; the sign plays no part.                            *)
Thm_C6_Bit ==
    Done("bit") =>
        /\ outcome = "return"
        /\ retv = << /\ X.c # 0
                     /\ X.exp <= Arg
                     /\ Arg <= MsbPos(X)
                     /\ (X.c \div (2 ^ (Arg - X.exp))) % 2 = 1 >>

(* a set digit above the least significant one was read *)
Wit_C6_SetDigit ==
    /\ Done("bit")
    /\ outcome = "return"
    /\ retv = <<TRUE>>
    /\ Arg > X.exp
    /\ Arg < MsbPos(X)

(* C7 as stated: normalize(p_target) with 0 <= p_target < p on a nonzero   *)
(* value fails with an error whose kind is distinct from the               *)
(* invalid-argument error, and produces no result.                         *)
Claim_C7_DistinctErrorKind ==
    (Done("normalize") /\ X.c # 0 /\ 0 <= Arg /\ Arg < BitLen(X.c)) =>
        /\ outcome = "raise"
        /\ retv = <<>>
        /\ exc.cls # InvalidArgument.cls

(* C7 amended: normalize(p_target) with 0 <= p_target < p on a nonzero     *)
(* value fails with a ValueError, the class of the invalid-argument error, *)
(* told apart from it only by its message 'insufficient precision'; no     *)
(* result is produced and no object is created.                            *)
Thm_C7_InsufficientPrecision ==
    (Done("normalize") /\ X.c # 0 /\ 0 <= Arg /\ Arg < BitLen(X.c)) =>
        /\ outcome = "raise"
        /\ retv = <<>>
        /\ exc.cls = "ValueError"
        /\ exc.cls = InvalidArgument.cls
        /\ exc.msg = "insufficient precision"
        /\ exc.msg # InvalidArgument.msg
        /\ Len(heap) = 1

(* a narrowing request on a nonzero value has failed *)
Wit_C7_NarrowingRaised ==
    /\ Done("normalize")
    /\ X.c # 0
    /\ 0 <= Arg
    /\ Arg < BitLen(X.c)
    /\ outcome = "raise"

(* C8: normalize(p_target) on a zero value with p_target >= 0 returns a    *)
(* value with the same s, the same exp and c = 0.                          *)
Thm_C8_NormalizeZero ==
    (Done("normalize") /\ X.c = 0 /\ Arg >= 0) =>
        /\ outcome = "return"
        /\ Len(retv) = 1
        /\ Hi.s = X.s
        /\ Hi.exp = X.exp
        /\ Hi.c = 0

(* a zero value was normalized to a positive precision *)
Wit_C8_ZeroNormalized ==
    /\ Done("normalize")
    /\ X.c = 0
    /\ Arg > 0
    /\ outcome = "return"

(* C9: a transform (normalize, split) returns only objects that did not    *)
(* exist before the call, none of them the input, and leaves the input's   *)
(* fields as they were.                                                    *)
Claim_C9_FreshResults ==
    [][(pc = "ready" /\ pc' = "done" /\ op' \in {"normalize", "split"} /\ outcome' = "return") =>
         /\ \A i \in 1 .. Len(retv') : retv'[i] # self /\ retv'[i] \notin DOMAIN heap
         /\ heap'[self] = heap[self]]_vars

(* C10: bitmask(k) returns 2^k - 1 for k >= 0 and fails with the           *)
(* invalid-argument error (a ValueError), returning nothing, for k < 0;    *)
(* both numbers/utils.py and numbers/util.py.                              *)
Thm_C10_Bitmask ==
    (Done("bitmask") \/ Done("util_bitmask")) =>
        IF Arg >= 0
          THEN outcome = "return" /\ retv = <<(2 ^ Arg) - 1>>
          ELSE outcome = "raise" /\ retv = <<>> /\ exc.cls = "ValueError"

(* bitmask(5) = 31 was computed *)
Wit_C10_BitmaskFive ==
    /\ Done("bitmask")
    /\ Arg = 5
    /\ outcome = "return"
    /\ retv = <<31>>

====
